---- MODULE Spec2Model ----
(***************************************************************************)
(* PhotoManager core (photomanager_core.py): discovery, per-day counters,  *)
(* pattern based renaming, collision-free output paths and the batch loop  *)
(* of process_images with its per-file failure isolation.                  *)
(*                                                                         *)
(* File names are sequences of tokens (a token is a run of characters that *)
(* the model never has to split: "a", "_", "/", "..", a digit, ".jpg").    *)
(* A path is a sequence of components, each component a token sequence.    *)
(***************************************************************************)
EXTENDS Integers, Sequences, FiniteSets, TLC

VARIABLES config, runtime, fs, dirs, run, work, pc, images_list, total, idx,
          processed, counters, im, live, dt, base_name, out_path, err,
          log, calls, ret,
          attempted, failedIdx, named, resolved, allocated, written,
          probe

vars == <<config, runtime, fs, dirs, run, work, pc, images_list, total, idx,
          processed, counters, im, live, dt, base_name, out_path, err,
          log, calls, ret,
          attempted, failedIdx, named, resolved, allocated, written,
          probe>>

(* ---------------------------- bounds ---------------------------------- *)
\* longest work list handed to one run of process_images
MaxFiles == 2
\* number of successive runs of process_images over the same filesystem
MaxRuns == 2
\* files attempted over all runs together
MaxWork == 3
\* highest suffix among the files found in the folder (SpecAlloc)
MaxSuffix == 3

(* ------------------------- program constants -------------------------- *)
\* width of the zero padding in "{counter:03d}" and in the "_{i:03d}" suffix
PadWidth == 3

SUPPORTED_EXT == {".jpg", ".jpeg", ".png", ".bmp", ".tiff", ".tif", ".webp"}

Days == {"D1", "D2"}

NoImage == <<>>
NoPath == <<>>

(* --------------------------- small helpers ---------------------------- *)
Last(s) == s[Len(s)]

Front(s) == SubSeq(s, 1, Len(s) - 1)

Range(s) == {s[i] : i \in 1..Len(s)}

DigitTok == <<"0", "1", "2", "3", "4", "5", "6", "7", "8", "9">>

RECURSIVE Digits(_)
\* str(n) for n >= 0, one token per digit
Digits(n) == IF n < 10 THEN <<DigitTok[n + 1]>>
             ELSE Digits(n \div 10) \o <<DigitTok[(n % 10) + 1]>>

RECURSIVE Zeros(_)
Zeros(k) == IF k <= 0 THEN <<>> ELSE <<"0">> \o Zeros(k - 1)

\* format(n, "03d"): zero padded to PadWidth, longer numbers kept whole
Pad3(n) == Zeros(PadWidth - Len(Digits(n))) \o Digits(n)

(* ------------------------------ paths --------------------------------- *)
RECURSIVE SplitAt(_, _, _)
\* the components of a rendered name, cut at every "/" token
SplitAt(toks, cur, acc) ==
    IF toks = <<>> THEN Append(acc, cur)
    ELSE IF Head(toks) = "/" THEN SplitAt(Tail(toks), <<>>, Append(acc, cur))
    ELSE SplitAt(Tail(toks), Append(cur, Head(toks)), acc)

RECURSIVE Walk(_, _)
\* the directory entry the operating system reaches from `at` through comps
Walk(at, comps) ==
    IF comps = <<>> THEN at
    ELSE LET c == Head(comps) IN
         IF c = <<>> \/ c = <<".">> THEN Walk(at, Tail(comps))
         ELSE IF c = <<"..">> THEN
              Walk(IF at = <<>> THEN at ELSE Front(at), Tail(comps))
         ELSE Walk(Append(at, c), Tail(comps))

\* folder / name : an absolute name replaces the folder
JoinPath(folder, toks) ==
    IF toks # <<>> /\ Head(toks) = "/" THEN Walk(<<>>, SplitAt(toks, <<>>, <<>>))
    ELSE Walk(folder, SplitAt(toks, <<>>, <<>>))

\* p lies inside directory d (at any depth)
InDir(p, d) == Len(p) > Len(d) /\ SubSeq(p, 1, Len(d)) = d

Parent(p) == Front(p)

\* Path.name, Path.suffix, Path.stem of a file path
NameOf(p) == IF p = <<>> THEN <<>> ELSE Last(p)

SuffixOf(p) == LET n == NameOf(p) IN
               IF Len(n) >= 2 /\ Last(n) \in SUPPORTED_EXT \cup {".txt"}
               THEN Last(n) ELSE ""

StemOf(p) == LET n == NameOf(p) IN
             IF SuffixOf(p) = "" THEN n ELSE Front(n)

Ancestors(d) == {SubSeq(d, 1, k) : k \in 0..Len(d)}

(* --------------------------- configuration ---------------------------- *)
\* rename patterns, as sequences of literal tokens and replacement fields
DefaultPattern == <<"{folder}", "_", "{date}", "_", "{counter:03d}">>

Patterns == { DefaultPattern,
              <<"{orig}">>,
              <<"x">>,
              <<"{bad}", "{counter}">>,
              <<>>,
              <<"..", "/", "{orig}">> }

SourceDir == << <<"in">> >>

\* destination apart from the source, inside it, and the source itself
DestDirs == { << <<"out">> >>, << <<"in">>, <<"out">> >>, SourceDir }

\* the fields of PhotoConfig that process_images reads after the list is
\* built; config.recursive is read by gather_images alone
PhotoConfig == [source_dir : {SourceDir}, dest_dir : DestDirs,
                rename_pattern : Patterns, output_format : {"JPEG"}]

\* the files of the source directory before the first run
InitialFiles == { << <<"in">>, <<"a", ".jpg">> >>,
                  << <<"in">>, <<"b", ".jpg">> >>,
                  << <<"in">>, <<"c", ".txt">> >> }

(* ---------------------------- discovery ------------------------------- *)
\* _iter_images: files under folder (direct children unless recursive)
\* whose suffix is supported
_iter_images(files, folder, recursive) ==
    { p \in files : /\ InDir(p, folder)
                    /\ (recursive \/ Len(p) = Len(folder) + 1)
                    /\ SuffixOf(p) \in SUPPORTED_EXT }

gather_images(files, cfg, recursive) ==
    _iter_images(files, cfg.source_dir, recursive)

\* the lists a caller can hand over: the discovery result in any order the
\* directory walk yields, or an explicit selection of it (possibly empty),
\* of at most n files
WorkLists(files, cfg, recursive, n) ==
    LET S == gather_images(files, cfg, recursive) IN
    UNION { { l \in [1..k -> S] : \A i, j \in 1..k : i # j => l[i] # l[j] }
            : k \in 0..n }

(* --------------------------- name builder ----------------------------- *)
\* one replacement field or literal of str.format(**ctx)
RenderItem(item, ctx) ==
    IF item = "{folder}" THEN [ok |-> TRUE, out |-> ctx.folder]
    ELSE IF item = "{date}" THEN [ok |-> TRUE, out |-> <<ctx.date>>]
    ELSE IF item = "{counter}" THEN [ok |-> TRUE, out |-> Digits(ctx.counter)]
    ELSE IF item = "{counter:03d}" THEN [ok |-> TRUE, out |-> Pad3(ctx.counter)]
    ELSE IF item = "{orig}" THEN [ok |-> TRUE, out |-> ctx.orig]
    ELSE IF item \in {"{bad}", "{"} THEN [ok |-> FALSE, out |-> <<>>]
    ELSE [ok |-> TRUE, out |-> <<item>>]

RECURSIVE Render(_, _)
\* config.rename_pattern.format(**ctx): ok = FALSE when format raises
Render(pattern, ctx) ==
    IF pattern = <<>> THEN [ok |-> TRUE, out |-> <<>>]
    ELSE LET h == RenderItem(Head(pattern), ctx)
             t == Render(Tail(pattern), ctx)
         IN  [ok |-> h.ok /\ t.ok, out |-> h.out \o t.out]

\* faulty variant: the counter is bumped a second time
IncrementTwice(cnt, day_key) ==
    [d \in DOMAIN cnt \cup {day_key} |->
        IF d = day_key THEN (IF d \in DOMAIN cnt THEN cnt[d] ELSE 0) + 2
        ELSE cnt[d]]

\* faulty variant: one counter for all days
IncrementShared(cnt, day_key) ==
    LET n == IF DOMAIN cnt = {} THEN 0
             ELSE CHOOSE m \in {cnt[d] : d \in DOMAIN cnt} :
                      \A d \in DOMAIN cnt : cnt[d] <= m
    IN  [d \in DOMAIN cnt \cup {day_key} |-> IF d = day_key THEN n + 1 ELSE cnt[d]]

\* counters.setdefault(day_key, 0); counters[day_key] += 1
Increment(cnt, day_key) ==
    [d \in DOMAIN cnt \cup {day_key} |->
        IF d = day_key THEN (IF d \in DOMAIN cnt THEN cnt[d] ELSE 0) + 1
        ELSE cnt[d]]

Fallback(parent_name, day_key, n) ==
    parent_name \o <<"_", day_key, "_">> \o Pad3(n)

\* faulty variant: the rendered name is returned without the emptiness test
BuildBaseNameNoEmptyTest(cfg, src, parent_name, cnt, day) ==
    LET c2 == Increment(cnt, day)
        r == Render(cfg.rename_pattern,
                    [folder |-> parent_name, date |-> day,
                     counter |-> c2[day], orig |-> StemOf(src)])
    IN  [raised |-> FALSE, counters |-> c2,
         base |-> IF r.ok THEN r.out ELSE Fallback(parent_name, day, c2[day])]

\* _build_base_name: the base name and the counters after the call
_build_base_name(cfg, src, parent_name, cnt, day) ==
    LET c2 == Increment(cnt, day)
        r == Render(cfg.rename_pattern,
                    [folder |-> parent_name, date |-> day,
                     counter |-> c2[day], orig |-> StemOf(src)])
    IN  [raised |-> FALSE, counters |-> c2,
         base |-> IF r.ok /\ r.out # <<>> THEN r.out
                  ELSE Fallback(parent_name, day, c2[day])]

(* --------------------------- path allocator --------------------------- *)
RECURSIVE Probe(_, _, _, _, _)
\* the while loop of unique_path, from suffix i on
Probe(entries, folder, base, ext, i) ==
    LET candidate == JoinPath(folder, base \o <<"_">> \o Pad3(i) \o <<ext>>) IN
    IF candidate \notin entries THEN candidate
    ELSE Probe(entries, folder, base, ext, i + 1)

\* faulty variant: the first suffixed name is returned without looking at the disk
UniquePathOneSuffix(entries, folder, base, ext) ==
    LET candidate == JoinPath(folder, base \o <<ext>>) IN
    IF candidate \notin entries THEN candidate
    ELSE JoinPath(folder, base \o <<"_">> \o Pad3(1) \o <<ext>>)

\* unique_path: <base><ext>, else the first unused <base>_NNN<ext>
unique_path(entries, folder, base, ext) ==
    LET candidate == JoinPath(folder, base \o <<ext>>) IN
    IF candidate \notin entries THEN candidate
    ELSE Probe(entries, folder, base, ext, 1)

\* faulty variant: the returned path is reserved by creating it
UniquePathReserves(files, entries, folder, base, ext) ==
    files \cup {unique_path(entries, folder, base, ext)}

\* the files on disk after a call of unique_path: it only calls exists()
unique_path_files(files, entries, folder, base, ext) == files

\* ext of process_images: ".jpg" for JPEG, "." + fmt.lower() otherwise
ExtOf(fmt) == IF fmt = "JPEG" THEN ".jpg"
              ELSE IF fmt = "PNG" THEN ".png"
              ELSE ".webp"

(* ------------------------ process_images: state ----------------------- *)
\* faulty variant: the loop walks the live directory instead of the materialised list
LazyList(list, files, cfg) ==
    LET new == gather_images(files, cfg, TRUE) \ Range(list)
        RECURSIVE Seqd(_)
        Seqd(S) == IF S = {} THEN <<>>
                   ELSE LET e == CHOOSE e \in S : TRUE IN <<e>> \o Seqd(S \ {e})
    IN  list \o Seqd(new)

\* the iterable of "for src in images_list": the list built before the loop
LoopList(list, files, cfg) == list

CurrentList == LoopList(images_list, fs, config)

Src == CurrentList[idx]

\* faulty variant: only files that did not fail are counted
CountSuccessOnly(n, failed) == IF failed THEN n ELSE n + 1

\* processed += 1, after the try statement
CountAfter(n, failed) == n + 1

\* faulty variant: only a failure of Image.open is handled
CatchesOpenOnly(stage) == stage = "open"

\* "except Exception" around the whole per-file pipeline
Catches(stage) == TRUE

\* the colour mode of a stored image: b.jpg is a CMYK JPEG, the others
\* (and every JPEG this program writes) are RGB
ModeOf(p) == IF NameOf(p) = <<"b", ".jpg">> THEN "CMYK" ELSE "RGB"

\* ensure_rgb returns img.convert('RGB'), a new image, for these modes
ensure_rgb_converts(mode) == mode \in {"RGBA", "LA", "P", "CMYK"}

\* parent_name = src_dir.name
ParentName(cfg) == NameOf(cfg.source_dir)

\* rebinding "im": the old object is reclaimed at once by a reference
\* counting runtime and stays allocated otherwise; nothing closes it
Rebind(objs, old, new) ==
    (IF runtime = "refcount" THEN objs \ {old} ELSE objs) \cup {new}

\* im.close()
Close(objs, obj) == objs \ {obj}

Fail(stage) ==
    /\ failedIdx' = Append(failedIdx, idx)
    /\ err' = stage

NoProbe == [phase |-> "off", base |-> <<>>, r1 |-> NoPath, r2 |-> NoPath,
            r3 |-> NoPath, before |-> {}]

Init ==
    /\ config \in PhotoConfig
    /\ runtime \in {"refcount", "deferred"}
    /\ fs = InitialFiles
    /\ dirs = Ancestors(SourceDir)
    /\ run = 0
    /\ work = 0
    /\ pc = "idle"
    /\ images_list = <<>>
    /\ total = 0
    /\ idx = 0
    /\ processed = 0
    /\ counters = <<>>
    /\ im = NoImage
    /\ live = {}
    /\ dt = "D1"
    /\ base_name = <<>>
    /\ out_path = NoPath
    /\ err = "none"
    /\ log = <<>>
    /\ calls = <<>>
    /\ ret = -1
    /\ attempted = <<>>
    /\ failedIdx = <<>>
    /\ named = <<>>
    /\ resolved = 0
    /\ allocated = {}
    /\ written = {}
    /\ probe = NoProbe

(* ----------------------- process_images: actions ---------------------- *)
\* lines 145-167: mkdir, materialise the list, early return on an empty one,
\* fresh counters and processed count
Start ==
    /\ pc \in {"idle", "done"}
    /\ run < MaxRuns
    /\ run' = run + 1
    /\ dirs' = dirs \cup Ancestors(config.dest_dir)
    /\ \E recursive \in BOOLEAN :
       \E l \in WorkLists(fs, config, recursive,
                          IF MaxWork - work < MaxFiles THEN MaxWork - work
                          ELSE MaxFiles) :
          /\ images_list' = l
          /\ work' = work + Len(l)
          /\ total' = Len(l)
          /\ IF Len(l) = 0
             THEN pc' = "done" /\ ret' = 0 /\ idx' = 0
             ELSE pc' = "open" /\ ret' = -1 /\ idx' = 1
    /\ processed' = 0
    /\ counters' = <<>>
    /\ im' = NoImage
    /\ live' = {}
    /\ base_name' = <<>>
    /\ out_path' = NoPath
    /\ err' = "none"
    /\ log' = <<>>
    /\ calls' = <<>>
    /\ attempted' = <<>>
    /\ failedIdx' = <<>>
    /\ named' = <<>>
    /\ resolved' = 0
    /\ allocated' = {}
    /\ written' = {}
    /\ dt' = "D1"
    /\ UNCHANGED <<config, runtime, fs, probe>>

\* line 171: im = Image.open(src)
OpenStep ==
    /\ pc = "open"
    /\ attempted' = Append(attempted, Src)
    /\ \E ok \in BOOLEAN :
          IF ok /\ Src \in fs
          THEN /\ im' = <<idx, 0>>
               /\ live' = live \cup {<<idx, 0>>}
               /\ pc' = "transpose"
               /\ UNCHANGED <<err, failedIdx>>
          ELSE /\ Fail("open")
               /\ pc' = "except"
               /\ UNCHANGED <<im, live>>
    /\ UNCHANGED <<config, runtime, fs, dirs, run, work, images_list, total, idx,
                   processed, counters, dt, base_name, out_path, log, calls,
                   ret, named, resolved, allocated, written, probe>>

\* line 173: im = ImageOps.exif_transpose(im), which returns a new image
TransposeStep ==
    /\ pc = "transpose"
    /\ \E ok \in BOOLEAN :
          IF ok
          THEN /\ im' = <<idx, 1>>
               /\ live' = Rebind(live, im, <<idx, 1>>)
               /\ pc' = "name"
               /\ UNCHANGED <<err, failedIdx>>
          ELSE /\ Fail("transform")
               /\ pc' = "close"
               /\ UNCHANGED <<im, live>>
    /\ UNCHANGED <<config, fs, runtime, dirs, run, work, images_list, total, idx,
                   processed, counters, dt, base_name, out_path, log, calls,
                   ret, attempted, named, resolved, allocated, written, probe>>

\* lines 174-176: dt = exif_datetime(im, src), which never raises, and
\* base_name = _build_base_name(config, src, parent_name, counters, dt)
NameStep ==
    /\ pc = "name"
    /\ \E day \in Days :
          LET r == _build_base_name(config, Src, ParentName(config), counters, day) IN
          /\ dt' = day
          /\ counters' = r.counters
          /\ named' = [d \in DOMAIN named \cup {day} |->
                          IF d = day
                          THEN (IF d \in DOMAIN named THEN named[d] ELSE 0) + 1
                          ELSE named[d]]
          /\ resolved' = resolved + 1
          /\ IF r.raised
             THEN /\ Fail("transform")
                  /\ pc' = "close"
                  /\ UNCHANGED base_name
             ELSE /\ base_name' = r.base
                  /\ pc' = "convert"
                  /\ UNCHANGED <<err, failedIdx>>
    /\ UNCHANGED <<config, runtime, fs, dirs, run, work, images_list, total, idx,
                   processed, im, live, out_path, log, calls, ret, attempted,
                   allocated, written, probe>>

\* lines 179-180: im = ensure_rgb(im) (a new image for the modes that need
\* conversion, the same one otherwise), then im.thumbnail(...) in place
ConvertStep ==
    /\ pc = "convert"
    /\ \E ok \in BOOLEAN :
          /\ IF ensure_rgb_converts(ModeOf(Src))
             THEN /\ im' = <<idx, 2>>
                  /\ live' = Rebind(live, im, <<idx, 2>>)
             ELSE UNCHANGED <<im, live>>
          /\ IF ok
             THEN pc' = "alloc" /\ UNCHANGED <<err, failedIdx>>
             ELSE Fail("transform") /\ pc' = "close"
    /\ UNCHANGED <<config, runtime, fs, dirs, run, work, images_list, total, idx,
                   processed, counters, dt, base_name, out_path, log, calls,
                   ret, attempted, named, resolved, allocated, written, probe>>

\* line 182: out_path = unique_path(dst_dir, base_name, ext)
AllocStep ==
    /\ pc = "alloc"
    /\ LET ext == ExtOf(config.output_format)
           p == unique_path(fs \cup dirs, config.dest_dir, base_name, ext)
       IN  /\ out_path' = p
           /\ fs' = unique_path_files(fs, fs \cup dirs, config.dest_dir,
                                      base_name, ext)
           /\ allocated' = allocated \cup {[idx |-> idx, path |-> p]}
    /\ pc' = "save"
    /\ UNCHANGED <<config, runtime, dirs, run, work, images_list, total, idx,
                   processed, counters, im, live, dt, base_name, err, log,
                   calls, ret, attempted, failedIdx, named, resolved, written, probe>>

\* lines 184-196: im.save(out_path, ...); a failed save leaves no file (it
\* removes the file it created); it fails when the folder does not exist
SaveStep ==
    /\ pc = "save"
    /\ \E ok \in BOOLEAN :
          IF ok /\ Parent(out_path) \in dirs
          THEN /\ fs' = fs \cup {out_path}
               /\ written' = written \cup {[idx |-> idx, path |-> out_path]}
               /\ UNCHANGED <<err, failedIdx>>
          ELSE /\ Fail("save")
               /\ UNCHANGED <<fs, written>>
    /\ pc' = "close"
    /\ UNCHANGED <<config, runtime, dirs, run, work, images_list, total, idx,
                   processed, counters, im, live, dt, base_name, out_path,
                   log, calls, ret, attempted, named, resolved, allocated, probe>>

\* lines 198-199: finally: im.close(), then the pending exception goes on
CloseStep ==
    /\ pc = "close"
    /\ live' = Close(live, im)
    /\ pc' = IF err = "none" THEN "progress" ELSE "except"
    /\ UNCHANGED <<config, runtime, fs, dirs, run, work, images_list, total, idx,
                   processed, counters, im, dt, base_name, out_path, err, log,
                   calls, ret, attempted, failedIdx, named, resolved,
                   allocated, written, probe>>

\* lines 200-202: except Exception as e: print(f"[ERREUR] {src}: {e}")
ExceptStep ==
    /\ pc = "except"
    /\ IF Catches(err)
       THEN /\ log' = Append(log, Src)
            /\ pc' = "progress"
       ELSE /\ pc' = "raised"
            /\ UNCHANGED log
    /\ UNCHANGED <<config, runtime, fs, dirs, run, work, images_list, total, idx,
                   processed, counters, im, live, dt, base_name, out_path,
                   err, calls, ret, attempted, failedIdx, named, resolved,
                   allocated, written, probe>>

\* lines 204-206 and the loop header: processed += 1, the progress sink is
\* called, the loop goes on to the next file of the list
ProgressStep ==
    /\ pc = "progress"
    /\ processed' = CountAfter(processed, err # "none")
    /\ calls' = Append(calls, <<processed', total>>)
    /\ err' = "none"
    /\ IF idx < Len(CurrentList)
       THEN idx' = idx + 1 /\ pc' = "open"
       ELSE idx' = idx /\ pc' = "return"
    /\ UNCHANGED <<config, runtime, fs, dirs, run, work, images_list, total,
                   counters, im, live, dt, base_name, out_path, log, ret,
                   attempted, failedIdx, named, resolved, allocated, written,
                   probe>>

\* line 208: return processed
Return ==
    /\ pc = "return"
    /\ ret' = processed
    /\ pc' = "done"
    /\ UNCHANGED <<config, runtime, fs, dirs, run, work, images_list, total, idx,
                   processed, counters, im, live, dt, base_name, out_path,
                   err, log, calls, attempted, failedIdx, named, resolved,
                   allocated, written, probe>>

Next ==
    \/ Start
    \/ OpenStep
    \/ TransposeStep
    \/ NameStep
    \/ ConvertStep
    \/ AllocStep
    \/ SaveStep
    \/ CloseStep
    \/ ExceptStep
    \/ ProgressStep
    \/ Return

Spec == Init /\ [][Next]_vars

(* ----------------- unique_path called on its own (SpecAlloc) ---------- *)
ProbeFolder == << <<"out">> >>

ProbeBases == { <<"x">>, <<"x", "_", "0", "0", "1">> }

\* x.jpg, x_001.jpg, ..., up to suffix MaxSuffix
ProbeFiles ==
    { JoinPath(ProbeFolder, <<"x", ".jpg">>) } \cup
    { JoinPath(ProbeFolder, <<"x", "_">> \o Pad3(i) \o <<".jpg">>) : i \in 1..MaxSuffix }

InitAlloc ==
    /\ config = [source_dir |-> SourceDir, dest_dir |-> ProbeFolder,
                 rename_pattern |-> DefaultPattern, output_format |-> "JPEG"]
    /\ runtime = "refcount"
    /\ fs \in SUBSET ProbeFiles
    /\ dirs = Ancestors(ProbeFolder)
    /\ run = 0
    /\ work = 0
    /\ pc = "probe"
    /\ images_list = <<>>
    /\ total = 0
    /\ idx = 0
    /\ processed = 0
    /\ counters = <<>>
    /\ im = NoImage
    /\ live = {}
    /\ dt = "D1"
    /\ base_name = <<>>
    /\ out_path = NoPath
    /\ err = "none"
    /\ log = <<>>
    /\ calls = <<>>
    /\ ret = -1
    /\ attempted = <<>>
    /\ failedIdx = <<>>
    /\ named = <<>>
    /\ resolved = 0
    /\ allocated = {}
    /\ written = {}
    /\ probe = [NoProbe EXCEPT !.phase = "start", !.before = fs]

ProbeUnchanged ==
    UNCHANGED <<config, runtime, dirs, run, work, pc, images_list, total, idx,
                processed, counters, im, live, dt, base_name, out_path, err,
                log, calls, ret, attempted, failedIdx, named, resolved,
                allocated, written>>

ProbeExt == ExtOf(config.output_format)

\* a first call of unique_path(folder, base, ext)
ProbeCall ==
    /\ probe.phase = "start"
    /\ \E b \in ProbeBases :
          /\ probe' = [probe EXCEPT !.phase = "called", !.base = b,
                          !.r1 = unique_path(fs \cup dirs, ProbeFolder, b, ProbeExt)]
          /\ fs' = unique_path_files(fs, fs \cup dirs, ProbeFolder, b, ProbeExt)
    /\ ProbeUnchanged

\* a second call with the same arguments, no file created in between
ProbeAgain ==
    /\ probe.phase = "called"
    /\ probe' = [probe EXCEPT !.phase = "twice",
                    !.r2 = unique_path(fs \cup dirs, ProbeFolder, probe.base, ProbeExt)]
    /\ fs' = unique_path_files(fs, fs \cup dirs, ProbeFolder, probe.base, ProbeExt)
    /\ ProbeUnchanged

\* the caller creates the path the first call returned
ProbeCreate ==
    /\ probe.phase \in {"called", "twice"}
    /\ probe' = [probe EXCEPT !.phase = "created"]
    /\ fs' = fs \cup {probe.r1}
    /\ ProbeUnchanged

\* a call after the first returned path was created
ProbeAfter ==
    /\ probe.phase = "created"
    /\ probe' = [probe EXCEPT !.phase = "after",
                    !.r3 = unique_path(fs \cup dirs, ProbeFolder, probe.base, ProbeExt)]
    /\ fs' = unique_path_files(fs, fs \cup dirs, ProbeFolder, probe.base, ProbeExt)
    /\ ProbeUnchanged

NextAlloc == ProbeCall \/ ProbeAgain \/ ProbeCreate \/ ProbeAfter

SpecAlloc == InitAlloc /\ [][NextAlloc]_vars

(* ------------------------------ claims -------------------------------- *)
RECURSIVE SumOf(_)
SumOf(f) == IF DOMAIN f = {} THEN 0
            ELSE LET d == CHOOSE d \in DOMAIN f : TRUE
                 IN  f[d] + SumOf([e \in DOMAIN f \ {d} |-> f[e]])

\* the per-file pipeline of file idx is under way
InFile == pc \in {"open", "transpose", "name", "convert", "alloc", "save",
                  "close", "except"}

\* the run is over and had files to work on
Finished == pc = "done" /\ Len(images_list) > 0

Failed(i) == i \in Range(failedIdx)

\* C1: for a list of N > 0 files the progress sink is called once after
\* every file, failed or not, with (1, N), (2, N), ..., (N, N) in that
\* order, and process_images returns N.
C1_ProgressSink ==
    LET N == Len(images_list) IN
    /\ \A k \in 1..Len(calls) : calls[k] = <<k, N>>
    /\ InFile => Len(calls) = idx - 1
    /\ pc = "return" => Len(calls) = N
    /\ Finished => Len(calls) = N /\ ret = N

C1_Witness ==
    /\ Finished
    /\ Len(images_list) = 2
    /\ failedIdx = <<1>>
    /\ calls = << <<1, 2>>, <<2, 2>> >>
    /\ ret = 2

\* C2: nothing raised while a file is opened, transformed or saved leaves
\* the loop; every failed file has exactly one log entry, naming its source
\* path, and wrote nothing; every file of the list is attempted, and every
\* file that did not fail wrote exactly one file.
C2_FailureIsolation ==
    LET pending == IF pc \in {"close", "except"} /\ err # "none" THEN 1 ELSE 0
        done == IF pc \in {"progress", "return", "done"} THEN idx ELSE idx - 1
    IN
    /\ pc # "raised"
    /\ \A j, k \in 1..Len(failedIdx) : j < k => failedIdx[j] < failedIdx[k]
    /\ Len(log) = Len(failedIdx) - pending
    /\ \A k \in 1..Len(log) : log[k] = images_list[failedIdx[k]]
    /\ \A w \in written : ~Failed(w.idx)
    /\ \A i \in 1..done :
          Cardinality({w \in written : w.idx = i}) = IF Failed(i) THEN 0 ELSE 1
    /\ Finished => attempted = images_list

C2_Witness ==
    /\ Finished
    /\ Len(images_list) = 2
    /\ failedIdx = <<1>>
    /\ log = <<images_list[1]>>
    /\ {w.idx : w \in written} = {2}

\* C3 as claimed: the path chosen for a file is neither an existing file
\* nor a path allocated to an earlier file of the run, whether or not that
\* earlier file was saved.
C3_NeverAllocatedTwice ==
    pc = "save" =>
        /\ out_path \notin fs
        /\ \A a \in allocated : a.idx < idx => a.path # out_path

\* C3 amended: the path chosen for a file is never an existing file or
\* folder, so it differs from every file that was in the destination before
\* and from every file written earlier in the run; a path allocated before
\* is chosen again only when the save of its earlier file failed.
C3_NoCollisionWithFiles ==
    pc = "save" =>
        /\ out_path \notin fs \cup dirs
        /\ \A w \in written : w.path # out_path
        /\ \A a \in allocated : a.idx < idx /\ a.path = out_path => Failed(a.idx)

\* two files of one run render the same base name and the second gets a
\* suffixed path next to the file the first one wrote
C3_Witness ==
    /\ pc = "save"
    /\ idx = 2
    /\ \E w \in written :
          /\ w.idx = 1
          /\ w.path = JoinPath(config.dest_dir, base_name \o <<".jpg">>)
    /\ out_path = JoinPath(config.dest_dir,
                           base_name \o <<"_", "0", "0", "1", ".jpg">>)

\* C4: the counters map is empty when a run starts; within the run the
\* k-th file resolved to a day is handed the counter k for that day, in
\* list order, whatever happens to the files of other days.
C4_PerDayCounters ==
    /\ pc = "open" /\ idx = 1 => counters = <<>>
    /\ DOMAIN counters = DOMAIN named
    /\ \A d \in DOMAIN counters : counters[d] = named[d]
    /\ pc \in {"convert", "alloc", "save"} =>
          /\ dt \in DOMAIN named
          /\ config.rename_pattern = DefaultPattern =>
                base_name = <<"in", "_", dt, "_", "0", "0", DigitTok[named[dt] + 1]>>
          /\ config.rename_pattern = <<"{bad}", "{counter}">> =>
                base_name = <<"in", "_", dt, "_", "0", "0", DigitTok[named[dt] + 1]>>

\* in a second run, the second file of a day is named with counter 2
\* while the other day has no counter yet
C4_Witness ==
    /\ run = 2
    /\ pc = "convert"
    /\ idx = 2
    /\ config.rename_pattern = DefaultPattern
    /\ DOMAIN counters = {"D2"}
    /\ base_name = <<"in", "_", "D2", "_", "0", "0", "2">>

\* C5: every path a run writes lies inside the destination directory, and
\* no source file is deleted or overwritten.
C5_Footprint ==
    /\ \A w \in written : InDir(w.path, config.dest_dir)
    /\ InitialFiles \subseteq fs
    /\ \A w \in written : w.path \notin Range(images_list) \cup InitialFiles

\* C6: _build_base_name never raises and returns a non-empty name: the
\* rendered template when rendering succeeds with a non-empty result, else
\* folder_day_counter with the counter padded to 3 digits; the counter of
\* the day is incremented exactly once by the call and that value is used.
C6_BuildBaseName ==
    [][pc = "name" =>
        LET day == dt'
            before == IF day \in DOMAIN counters THEN counters[day] ELSE 0
            r == Render(config.rename_pattern,
                        [folder |-> <<"in">>, date |-> day,
                         counter |-> before + 1, orig |-> StemOf(Src)])
        IN  /\ pc' = "convert"
            /\ base_name' # <<>>
            /\ counters'[day] = before + 1
            /\ \A d \in DOMAIN counters \ {day} : counters'[d] = counters[d]
            /\ IF r.ok /\ r.out # <<>>
               THEN base_name' = r.out
               ELSE base_name' = <<"in", "_", day, "_", "0", "0",
                                   DigitTok[before + 2]>>]_vars

\* the template is empty and the fallback name was built
C6_Witness ==
    /\ pc = "convert"
    /\ config.rename_pattern = <<>>
    /\ base_name = <<"in", "_", "D1", "_", "0", "0", "2">>

ProbePath(b, i) ==
    IF i = 0 THEN JoinPath(ProbeFolder, b \o <<".jpg">>)
    ELSE JoinPath(ProbeFolder, b \o <<"_">> \o Pad3(i) \o <<".jpg">>)

\* C7 as claimed: the call after the first returned path was created
\* returns the path with suffix _001.
C7_SuffixOne ==
    probe.phase = "after" => probe.r3 = ProbePath(probe.base, 1)

\* C7 amended: unique_path creates nothing and two calls in a row return
\* the same path; the call made after the first returned path was created
\* returns another, unused path: the first unused one of base_001,
\* base_002, ..., which is base_001 when the first call returned base+ext
\* and base_001 was not there.
C7_InspectsOnly ==
    /\ probe.phase \in {"called", "twice"} => fs = probe.before
    /\ probe.phase \in {"called", "twice"} => probe.r1 \notin fs
    /\ probe.phase = "twice" => probe.r2 = probe.r1
    /\ probe.phase = "after" =>
          /\ probe.r3 # probe.r1
          /\ probe.r3 \notin fs
          /\ \E i \in 1..(MaxSuffix + 2) :
                /\ probe.r3 = ProbePath(probe.base, i)
                /\ \A j \in 0..(i - 1) : ProbePath(probe.base, j) \in fs
          /\ ( /\ probe.r1 = ProbePath(probe.base, 0)
               /\ ProbePath(probe.base, 1) \notin probe.before )
             => probe.r3 = ProbePath(probe.base, 1)

\* x.jpg was free and x_001.jpg taken: after x.jpg is created the next
\* call returns x_002.jpg
C7_Witness ==
    /\ probe.phase = "after"
    /\ probe.base = <<"x">>
    /\ probe.r2 = probe.r1
    /\ probe.r1 = ProbePath(<<"x">>, 0)
    /\ probe.r3 = ProbePath(<<"x">>, 2)

\* C8: when the loop turns to the next file, and when process_images
\* returns, no image opened or derived for an earlier file is unreleased.
C8_ImagesReleased ==
    (pc \in {"open", "progress", "return"} \/ Finished) => live = {}

\* C9 as claimed: every file of the list has the counter of its day
\* incremented exactly once, whether it failed or not.
C9_OncePerFile ==
    /\ pc = "progress" => SumOf(counters) = idx
    /\ Finished => SumOf(counters) = Len(images_list)

\* C9 amended: the counter of a day is incremented exactly once for every
\* file that was opened and orientation-corrected (a file that fails before
\* that consumes no value), before the colour conversion, the resize and the
\* save and whether or not those fail; counters never decrease during a run,
\* so a value is handed out once; at the end the counter of a day is the
\* number of files resolved to that day.
C9_OncePerResolvedFile ==
    [][ /\ SumOf(counters') = resolved'
        /\ \A d \in DOMAIN counters' : counters'[d] = named'[d]
        /\ pc' \in {"convert", "alloc", "save"} =>
              /\ dt' \in DOMAIN counters'
              /\ resolved' >= 1
        /\ pc' \in {"convert", "alloc", "save", "progress", "return"} =>
              /\ resolved' <= idx'
              /\ idx' - resolved' <= Len(failedIdx')
        /\ pc \in {"convert", "alloc", "save", "close", "except"} =>
              counters' = counters
        /\ (pc' # "open" \/ idx' # 1) /\ pc' # "done" =>
              \A d \in DOMAIN counters :
                 d \in DOMAIN counters' /\ counters'[d] >= counters[d]
      ]_vars

\* the first file consumed counter 1 of its day and failed to save; the
\* second file of that day is handed counter 2
C9_Witness ==
    /\ pc = "convert"
    /\ idx = 2
    /\ failedIdx = <<1>>
    /\ written = {}
    /\ \E a \in allocated : a.idx = 1
    /\ counters = [d \in {dt} |-> 2]

\* C10: the list is built once, before the first file is written, out of
\* files that exist then; its files are attempted once each in list order,
\* no file the run writes is attempted in that run, and the total given to
\* the progress sink is the length of that list throughout.
C10_FixedWorkList ==
    /\ total = Len(images_list)
    /\ Len(attempted) <= Len(images_list)
    /\ attempted = SubSeq(images_list, 1, Len(attempted))
    /\ InFile /\ pc # "open" => Len(attempted) = idx
    /\ \A j, k \in 1..Len(attempted) : j # k => attempted[j] # attempted[k]
    /\ \A w \in written : w.path \notin Range(attempted) \cup Range(images_list)
    /\ \A k \in 1..Len(calls) : calls[k][2] = Len(images_list)
    /\ Finished => attempted = images_list

\* the destination lies inside the source: a second run works on a file
\* the first run wrote, and on nothing it writes itself
C10_Witness ==
    /\ Finished
    /\ run = 2
    /\ config.dest_dir = << <<"in">>, <<"out">> >>
    /\ \E k \in 1..Len(images_list) : InDir(images_list[k], config.dest_dir)
    /\ written # {}
    /\ attempted = images_list
====
